---- MODULE Spec2Model ----
(***************************************************************************)
(* Model of run.py: the recursive search of a repository's directory tree  *)
(* for a consecutive sequence of folder names                              *)
(* (find_target_sequence_globally and _find_strict_sequence_from_path),    *)
(* and the per-repository aggregation loop of main.                        *)
(*                                                                         *)
(* A repository is a finite ordered tree.  Node 0 is the repository root   *)
(* (the path ""); nodes 1..n are the entries, and an entry's path is       *)
(* modelled by its node number: the code never builds or parses a path, it *)
(* only hands item.path back to repo.get_contents.  A listing returns the  *)
(* children of a node in increasing node number.                           *)
(***************************************************************************)
EXTENDS Integers, Sequences, FiniteSets, TLC

\* ---------------------------------------------------------------- bounds
\* Entries of a repository whose listings may hold anything, same-named
\* siblings included.
MaxNodes == 3
\* Entries of a repository as a forge serves it: sibling names are unique.
MaxForgeNodes == 4
\* Length of the sequence looked for.
MaxSegs == 3
\* Repositories of one scan.
MaxRepos == 2

\* The names a sequence is made of, and a name no sequence holds.
Names == {"resources", "data"}
ForgeNames == Names \cup {"lib"}

\* ------------------------------------------------------ program constants
\* search_root_path = "" : the repository root.
Root == 0
\* Python's None.
None == -1
TARGET_PATH_SEGMENTS == <<"resources", "data">>
\* What repo.get_contents can do: return the listing, raise
\* GithubException with status 404, raise GithubException with another
\* status, raise any other exception.
Faults == {"404", "github", "other"}

VARIABLES
    parent,     \* parent[i]: the node that directly contains entry i
    ename,      \* ename[i]: item.name of entry i
    etype,      \* etype[i]: item.type of entry i, "dir" or "file"
    segments_to_find, \* the sequence the top-level call looks for
    base_path,  \* the path the top-level call starts from
    flaky,      \* whether listings of existing paths may fail in this run
    stack,      \* the call stack, innermost call last
    ret,        \* the value returned by the call that returned last
    phase,      \* "search", "returned", "raised", "processed", "fetch", "summary"
    log,        \* every repo.get_contents call of this repository, in order
    repo_index, \* processed_repo_count
    all_found_subfolder_names,
    found_before \* all_found_subfolder_names when this repository started

vars == <<parent, ename, etype, segments_to_find, base_path, flaky, stack, ret, phase, log,
          repo_index, all_found_subfolder_names, found_before>>

\* ------------------------------------------------------------ repository
NodeCount == Len(parent)
Nodes == 1..NodeCount
Exists(path) == path = Root \/ path \in Nodes
IsDir(path) == path = Root \/ (path \in Nodes /\ etype[path] = "dir")

\* Parent functions of the ordered trees with n entries, numbered in
\* preorder: every entry between parent[i] and i lies below parent[i].
ParentFns(n) ==
    { p \in [1..n -> 0..n] :
        \A i \in 1..n :
            /\ p[i] < i
            /\ \A j \in (p[i] + 1)..(i - 1) : p[j] >= p[i] }

\* Only directories contain entries.
TypeFns(n, p) ==
    { t \in [1..n -> {"dir", "file"}] :
        \A i \in 1..n : p[i] # Root => t[p[i]] = "dir" }

\* The entries directly inside path, in listing order.
ChildIds(path) ==
    SelectSeq([i \in 1..NodeCount |-> i], LAMBDA i : parent[i] = path)

\* repo.get_contents(path) when it succeeds: one ContentFile per entry.
get_contents(path) ==
    LET ch == ChildIds(path)
    IN  [k \in 1..Len(ch) |->
            [name |-> ename[ch[k]], type |-> etype[ch[k]], path |-> ch[k]]]

\* What a call of repo.get_contents(path) may do.  A path that does not
\* exist is answered 404; a path that exists is listed, or, when the forge
\* is flaky (rate limit, access, network), the call fails.
ListOutcomes(path) ==
    IF ~Exists(path) THEN {"404"}
    ELSE IF flaky THEN {"ok"} \cup Faults
    ELSE {"ok"}

\* Python truthiness of a returned path: None and "" are false.
Truthy(v) == v # None /\ v # Root

\* Sequences over S of length lo..hi.
SeqsOf(S, lo, hi) == UNION { [1..k -> S] : k \in lo..hi }

\* ------------------------------------------------------------ call stack
\* A frame of find_target_sequence_globally ("hunt") holds search_root_path
\* in path and segments_to_find in segs; a frame of
\* _find_strict_sequence_from_path ("chain") holds current_path_being_built
\* in path and segments in segs.  idx is the position of the running for
\* loop; pc is the place in the function body.
HuntFrame(path, segs) ==
    [fn |-> "hunt", path |-> path, segs |-> segs, pc |-> "list", idx |-> 1]
ChainFrame(path, segs) ==
    [fn |-> "chain", path |-> path, segs |-> segs, pc |-> "loop", idx |-> 1]

Top == stack[Len(stack)]
SetTop(f) == [stack EXCEPT ![Len(stack)] = f]
Running(fn, pc) ==
    /\ phase = "search"
    /\ stack # <<>>
    /\ Top.fn = fn
    /\ Top.pc = pc

\* return v: the frame is left and the caller (or main) receives v.
Return(v) ==
    /\ stack' = SubSeq(stack, 1, Len(stack) - 1)
    /\ ret' = v
    /\ phase' = IF Len(stack) = 1 THEN "returned" ELSE phase

\* An exception no handler of the search catches: neither function wraps
\* its nested calls in a try, so it unwinds every frame and reaches main.
Escape ==
    /\ stack' = <<>>
    /\ ret' = ret
    /\ phase' = "raised"

Logged(by, path, outcome) ==
    log' = Append(log, [by |-> by, path |-> path, ok |-> (outcome = "ok")])

\* A handler that lets every fault but a 404 pass.
CatchesOnly404(fault) == fault = "404"

\* The except clauses around repo.get_contents in
\* find_target_sequence_globally: GithubException (404 or not) and
\* Exception all end in return None.
HuntCatches(fault) == fault \in {"404", "github", "other"}

\* A handler without the clauses after the 404 test.
ChainCatchesOnly404(fault) == fault = "404"

\* The except clauses of _find_strict_sequence_from_path.
ChainCatches(fault) == fault \in {"404", "github", "other"}

\* The test without item.type == "dir".
NameOnly(item, segment_name) == item.name = segment_name

\* item.type == "dir" and item.name == segment_name
IsSegmentDir(item, segment_name) ==
    item.type = "dir" /\ item.name = segment_name

\* The first entry of contents named segment_name, file or directory.
FirstNamed(contents, segment_name) ==
    LET hits == { k \in 1..Len(contents) : contents[k].name = segment_name }
    IN  IF hits = {} THEN 0 ELSE CHOOSE k \in hits : \A m \in hits : k <= m

\* The first directory entry of contents named segment_name, as the inner
\* for loop with its break finds it; 0 when there is none.
FirstMatch(contents, segment_name) ==
    LET hits == { k \in 1..Len(contents) : IsSegmentDir(contents[k], segment_name) }
    IN  IF hits = {} THEN 0 ELSE CHOOSE k \in hits : \A m \in hits : k <= m

\* A recursion that searches search_root_path again.
StayAtRoot(search_root_path, item) == search_root_path

\* The path the Stage 2 loop recurses into for item.
DescendPath(search_root_path, item) == item.path

\* The for loop's step to the next item.
NextItem(idx) == idx + 1

\* A recursion that looks for the remainder of the sequence only.
DescendRemaining(segments) == Tail(segments)

\* The sequence the Stage 2 recursion looks for: the whole segments_to_find.
DescendSegments(segments) == segments

\* A chain that is handed the whole sequence.
WholeSegments(segments) == segments

\* remaining_segments = segments_to_find[1:]
RemainingSegments(segments) == Tail(segments)

\* Stage 1 returning whatever the chain gave, None included.
ReturnsUnchecked(v) == TRUE

\* if path_to_end_of_sequence:
Stage1Found(v) == Truthy(v)

\* Stage 2 returning whatever the first recursion gave, None included.
ReturnsFirstDescent(v) == TRUE

\* if found_path_in_subdir:
Stage2Found(v) == Truthy(v)

\* Every entry of the found folder counted as a sub-folder.
AnyEntry(item) == TRUE

\* if item.type == "dir": all_found_subfolder_names.add(item.name)
IsSubfolder(item) == item.type = "dir"

\* The except clauses of main around the listing of the found path.
MainCatches(fault) == fault \in {"404", "github", "other"}

\* ------------------------------- _find_strict_sequence_from_path (43-76)
\* One iteration of "for segment_name in segments".
ChainIter ==
    /\ Running("chain", "loop")
    /\ Top.idx <= Len(Top.segs)
    /\ \E outcome \in ListOutcomes(Top.path) :
        /\ Logged("chain", Top.path, outcome)
        /\ IF outcome = "ok"
           THEN LET contents == get_contents(Top.path)
                    k == FirstMatch(contents, Top.segs[Top.idx])
                IN  IF k = 0
                    THEN Return(None)
                    ELSE /\ stack' = SetTop([Top EXCEPT !.path = contents[k].path,
                                                        !.idx = NextItem(Top.idx)])
                         /\ UNCHANGED <<ret, phase>>
           ELSE IF ChainCatches(outcome) THEN Return(None) ELSE Escape
    /\ UNCHANGED <<parent, ename, etype, segments_to_find, base_path, flaky, repo_index,
                   all_found_subfolder_names, found_before>>

\* return current_path_being_built, once the loop has consumed segments.
ChainReturn ==
    /\ Running("chain", "loop")
    /\ Top.idx > Len(Top.segs)
    /\ Return(Top.path)
    /\ UNCHANGED <<parent, ename, etype, segments_to_find, base_path, flaky, log, repo_index,
                   all_found_subfolder_names, found_before>>

\* --------------------------------- find_target_sequence_globally (79-140)
\* Lines 94-110: the empty-sequence guard and the listing of search_root_path.
HuntList ==
    /\ Running("hunt", "list")
    /\ IF Top.segs = <<>>
       THEN Return(None) /\ UNCHANGED log
       ELSE \E outcome \in ListOutcomes(Top.path) :
                /\ Logged("hunt", Top.path, outcome)
                /\ IF outcome = "ok"
                   THEN /\ stack' = SetTop([Top EXCEPT !.pc = "stage1", !.idx = 1])
                        /\ UNCHANGED <<ret, phase>>
                   ELSE IF HuntCatches(outcome) THEN Return(None) ELSE Escape
    /\ UNCHANGED <<parent, ename, etype, segments_to_find, base_path, flaky, repo_index,
                   all_found_subfolder_names, found_before>>

\* Lines 113-125: one item of the Stage 1 loop; the loop's end falls
\* through to Stage 2.
HuntStage1 ==
    /\ Running("hunt", "stage1")
    /\ LET contents == get_contents(Top.path)
           first_segment_name == Head(Top.segs)
           remaining_segments == RemainingSegments(Top.segs)
       IN  IF Top.idx > Len(contents)
           THEN /\ stack' = SetTop([Top EXCEPT !.pc = "stage2", !.idx = 1])
                /\ UNCHANGED <<ret, phase>>
           ELSE LET item == contents[Top.idx]
                IN  IF IsSegmentDir(item, first_segment_name)
                    THEN IF remaining_segments = <<>>
                         THEN Return(item.path)
                         ELSE /\ stack' = Append(SetTop([Top EXCEPT !.pc = "stage1_ret"]),
                                                 ChainFrame(item.path, remaining_segments))
                              /\ UNCHANGED <<ret, phase>>
                    ELSE /\ stack' = SetTop([Top EXCEPT !.idx = NextItem(Top.idx)])
                         /\ UNCHANGED <<ret, phase>>
    /\ UNCHANGED <<parent, ename, etype, segments_to_find, base_path, flaky, log, repo_index,
                   all_found_subfolder_names, found_before>>

\* Lines 126-127: if path_to_end_of_sequence: return it; else the loop goes on.
HuntStage1Resume ==
    /\ Running("hunt", "stage1_ret")
    /\ IF Stage1Found(ret)
       THEN Return(ret)
       ELSE /\ stack' = SetTop([Top EXCEPT !.pc = "stage1", !.idx = NextItem(Top.idx)])
            /\ UNCHANGED <<ret, phase>>
    /\ UNCHANGED <<parent, ename, etype, segments_to_find, base_path, flaky, log, repo_index,
                   all_found_subfolder_names, found_before>>

\* Lines 131-136 and 140: one item of the Stage 2 loop; the loop's end
\* returns None.
HuntStage2 ==
    /\ Running("hunt", "stage2")
    /\ LET contents == get_contents(Top.path)
       IN  IF Top.idx > Len(contents)
           THEN Return(None)
           ELSE LET item == contents[Top.idx]
                IN  IF item.type = "dir"
                    THEN /\ stack' = Append(SetTop([Top EXCEPT !.pc = "stage2_ret"]),
                                            HuntFrame(DescendPath(Top.path, item),
                                                      DescendSegments(Top.segs)))
                         /\ UNCHANGED <<ret, phase>>
                    ELSE /\ stack' = SetTop([Top EXCEPT !.idx = NextItem(Top.idx)])
                         /\ UNCHANGED <<ret, phase>>
    /\ UNCHANGED <<parent, ename, etype, segments_to_find, base_path, flaky, log, repo_index,
                   all_found_subfolder_names, found_before>>

\* Lines 137-138: if found_path_in_subdir: return it; else the loop goes on.
HuntStage2Resume ==
    /\ Running("hunt", "stage2_ret")
    /\ IF Stage2Found(ret)
       THEN Return(ret)
       ELSE /\ stack' = SetTop([Top EXCEPT !.pc = "stage2", !.idx = NextItem(Top.idx)])
            /\ UNCHANGED <<ret, phase>>
    /\ UNCHANGED <<parent, ename, etype, segments_to_find, base_path, flaky, log, repo_index,
                   all_found_subfolder_names, found_before>>

Search ==
    \/ HuntList
    \/ HuntStage1
    \/ HuntStage1Resume
    \/ HuntStage2
    \/ HuntStage2Resume
    \/ ChainIter
    \/ ChainReturn

\* ------------------------------------------------------ main (234-285)
\* Lines 246-285 for one repository: when the search returned a path, list
\* it and add the names of its sub-folders; a failed listing and a search
\* that raised are reported and change nothing.
Aggregate ==
    /\ phase \in {"returned", "raised"}
    /\ IF phase = "returned" /\ Truthy(ret)
       THEN \E outcome \in ListOutcomes(ret) :
                /\ Logged("main", ret, outcome)
                /\ IF outcome = "ok"
                   THEN LET data_dir_contents == get_contents(ret)
                        IN  all_found_subfolder_names' =
                                all_found_subfolder_names \cup
                                { data_dir_contents[k].name :
                                    k \in { j \in 1..Len(data_dir_contents) :
                                              IsSubfolder(data_dir_contents[j]) } }
                   ELSE /\ MainCatches(outcome)
                        /\ UNCHANGED all_found_subfolder_names
       ELSE UNCHANGED <<log, all_found_subfolder_names>>
    /\ phase' = "processed"
    /\ UNCHANGED <<parent, ename, etype, segments_to_find, base_path, flaky, stack,
                   ret, repo_index, found_before>>

\* ------------------------------------------------------- specifications
\* p, t, nm are the parent, type and name functions of a repository of at
\* most maxn entries named from names.
IsRepository(p, t, nm, maxn, names) ==
    /\ p \in UNION { ParentFns(n) : n \in 0..maxn }
    /\ t \in TypeFns(Len(p), p)
    /\ nm \in [1..Len(p) -> names]

\* No two entries of one directory share a name.
UniqueSiblings(p, nm) ==
    \A i \in 1..Len(p) : \A j \in 1..Len(p) :
        (i # j /\ p[i] = p[j]) => nm[i] # nm[j]

\* The state main is in before the first repository.
MainStart ==
    /\ ret = None
    /\ phase = "search"
    /\ log = <<>>
    /\ repo_index = 1
    /\ all_found_subfolder_names = {}
    /\ found_before = {}

\* locateSequence: find_target_sequence_globally(repo, segments) with the
\* default search_root_path "", on any repository.
Init ==
    /\ IsRepository(parent, etype, ename, MaxNodes, Names)
    /\ segments_to_find \in SeqsOf(Names, 0, MaxSegs)
    /\ base_path = Root
    /\ flaky = TRUE
    /\ stack = <<HuntFrame(base_path, segments_to_find)>>
    /\ MainStart

Next == Search

Spec == Init /\ [][Next]_vars

\* locateSequence for the sequences as long as TARGET_PATH_SEGMENTS at
\* most, run to its end: the search is one synchronous call, so a step
\* that can be taken is taken.
InitLive ==
    /\ IsRepository(parent, etype, ename, MaxNodes, Names)
    /\ segments_to_find \in SeqsOf(Names, 0, Len(TARGET_PATH_SEGMENTS))
    /\ base_path = Root
    /\ flaky = TRUE
    /\ stack = <<HuntFrame(base_path, segments_to_find)>>
    /\ MainStart

SpecLive == InitLive /\ [][Next]_vars /\ WF_vars(Next)

\* locateSequence on the directories of a repository as a forge serves it
\* when no listing fails: sibling names are unique.
InitForge ==
    /\ IsRepository(parent, etype, ename, MaxForgeNodes, ForgeNames)
    /\ UniqueSiblings(parent, ename)
    /\ \A i \in 1..Len(parent) : etype[i] = "dir"
    /\ segments_to_find \in SeqsOf(Names, 1, MaxSegs)
    /\ base_path = Root
    /\ flaky = FALSE
    /\ stack = <<HuntFrame(base_path, segments_to_find)>>
    /\ MainStart

SpecForge == InitForge /\ [][Next]_vars

\* locateSequence on a repository as a forge serves it (sibling names are
\* unique) while listings may fail.
InitFlakyForge ==
    /\ IsRepository(parent, etype, ename, MaxNodes, ForgeNames)
    /\ UniqueSiblings(parent, ename)
    /\ segments_to_find \in SeqsOf(Names, 1, MaxSegs)
    /\ base_path = Root
    /\ flaky = TRUE
    /\ stack = <<HuntFrame(base_path, segments_to_find)>>
    /\ MainStart

SpecFlakyForge == InitFlakyForge /\ [][Next]_vars

\* _find_strict_sequence_from_path called on its own, from the root, from a
\* directory or from a path that does not exist.
InitChain ==
    /\ IsRepository(parent, etype, ename, MaxNodes, Names)
    /\ segments_to_find \in SeqsOf(Names, 0, MaxSegs)
    /\ base_path \in { q \in 0..(Len(parent) + 1) : IsDir(q) \/ ~Exists(q) }
    /\ flaky \in BOOLEAN
    /\ stack = <<ChainFrame(base_path, segments_to_find)>>
    /\ MainStart

NextChain == ChainIter \/ ChainReturn

SpecChain == InitChain /\ [][NextChain]_vars

\* main's loop over the repositories, looking for TARGET_PATH_SEGMENTS.
InitScan ==
    /\ IsRepository(parent, etype, ename, MaxNodes, Names)
    /\ segments_to_find = TARGET_PATH_SEGMENTS
    /\ base_path = Root
    /\ flaky = TRUE
    /\ stack = <<HuntFrame(base_path, segments_to_find)>>
    /\ MainStart

\* The body of "for repo in repos_to_scan" is over: what it knew of this
\* repository is dropped.
EndRepo ==
    /\ phase = "processed"
    /\ phase' = "fetch"
    /\ parent' = <<>>
    /\ etype' = <<>>
    /\ ename' = <<>>
    /\ stack' = <<>>
    /\ ret' = None
    /\ log' = <<>>
    /\ found_before' = all_found_subfolder_names
    /\ UNCHANGED <<segments_to_find, base_path, flaky, repo_index,
                   all_found_subfolder_names>>

\* for repo in repos_to_scan: the next repository, searched from the root.
NextRepo ==
    /\ phase = "fetch"
    /\ repo_index < MaxRepos
    /\ IsRepository(parent', etype', ename', MaxNodes, Names)
    /\ repo_index' = repo_index + 1
    /\ stack' = <<HuntFrame(Root, segments_to_find)>>
    /\ phase' = "search"
    /\ UNCHANGED <<segments_to_find, base_path, flaky, ret, log,
                   all_found_subfolder_names, found_before>>

\* The loop is over: the summary is printed.
Summary ==
    /\ phase = "fetch"
    /\ repo_index = MaxRepos
    /\ phase' = "summary"
    /\ UNCHANGED <<parent, ename, etype, segments_to_find, base_path, flaky,
                   stack, ret, log, repo_index, all_found_subfolder_names,
                   found_before>>

NextScan == Search \/ Aggregate \/ EndRepo \/ NextRepo \/ Summary

SpecScan == InitScan /\ [][NextScan]_vars

\* ================================================================ claims
\* The search call has returned to its caller.
Done == phase = "returned"

RECURSIVE PathOf(_)
\* The entries from the root down to entry i, i included.
PathOf(i) == IF i = Root THEN <<>> ELSE Append(PathOf(parent[i]), i)

Depth(i) == Len(PathOf(i))

\* Entry i lies in the subtree of entry y (y included).
InSubtree(i, y) == \E k \in 1..Len(PathOf(i)) : PathOf(i)[k] = y

\* The last Len(segs) components of the path of P are directories named
\* segs[1], ..., segs[Len(segs)], each directly inside the one before.
MatchEndsAt(P, segs) ==
    /\ P \in Nodes
    /\ segs # <<>>
    /\ Depth(P) >= Len(segs)
    /\ LET po == PathOf(P)
           off == Len(po) - Len(segs)
       IN  \A k \in 1..Len(segs) :
               /\ ename[po[off + k]] = segs[k]
               /\ etype[po[off + k]] = "dir"

\* No listing of this run failed.
AllListingsOk == \A k \in 1..Len(log) : log[k].ok

\* The paths find_target_sequence_globally was called on and listed, in order.
HuntCalls ==
    LET h == SelectSeq(log, LAMBDA e : e.by = "hunt")
    IN  [k \in 1..Len(h) |-> h[k].path]

\* ---- C1
\* C1 as stated: in a run without listing faults, when segments_to_find
\* ends at an entry P and no complete match lies at a shallower depth, the
\* search returns exactly P.
C1_AsStated ==
    (Done /\ AllListingsOk) =>
        \A P \in Nodes :
            ( /\ MatchEndsAt(P, segments_to_find)
              /\ \A Q \in Nodes : MatchEndsAt(Q, segments_to_find)
                                    => Depth(Q) >= Depth(P) )
            => ret = P

\* C1 amended: in a run without listing faults on a tree with unique sibling
\* names, when segments_to_find ends at exactly one entry P of the whole
\* tree, the search returns exactly P.
C1_UniqueMatchFound ==
    (Done /\ AllListingsOk /\ UniqueSiblings(parent, ename)) =>
        \A P \in Nodes :
            ( /\ MatchEndsAt(P, segments_to_find)
              /\ \A Q \in Nodes : MatchEndsAt(Q, segments_to_find) => Q = P )
            => ret = P

\* The only match lies three levels down and Stage 2 had to descend for it.
C1_Witness ==
    /\ Done
    /\ Len(segments_to_find) = 2
    /\ \E P \in Nodes :
        /\ Depth(P) = 4
        /\ MatchEndsAt(P, segments_to_find)
        /\ \A Q \in Nodes : MatchEndsAt(Q, segments_to_find) => Q = P
        /\ ret = P
    /\ Len(HuntCalls) >= 3

\* ---- C2
\* C2: whatever listings fail, a returned value other than None is an entry
\* whose last Len(segments_to_find) path components are directories named
\* by segments_to_find in order; and when no directory is named
\* segments_to_find[1] the search returns None.
C2_Soundness ==
    Done =>
        /\ ret # None => MatchEndsAt(ret, segments_to_find)
        /\ ( /\ segments_to_find # <<>>
             /\ \A i \in Nodes : ~(etype[i] = "dir" /\ ename[i] = segments_to_find[1]) )
           => ret = None

\* A two-segment match was returned in a run in which a listing failed.
C2_Witness ==
    /\ Done
    /\ ret # None
    /\ Len(segments_to_find) = 2
    /\ ~AllListingsOk

\* ---- C3
\* C3: on a tree with unique sibling names and without listing faults, when
\* segments_to_find occurs anywhere the search returns a path, not None.
C3_Completeness ==
    ( /\ Done
      /\ AllListingsOk
      /\ UniqueSiblings(parent, ename)
      /\ \E P \in Nodes : MatchEndsAt(P, segments_to_find) )
    => ret # None

\* The sequence [a, a, b] inside a/a/a/b: the chain from the outermost a
\* fails, and the match is found from the second a as search root.
C3_Witness ==
    /\ Done
    /\ segments_to_find = <<"resources", "resources", "data">>
    /\ NodeCount = 4
    /\ \A i \in Nodes : parent[i] = i - 1
    /\ ename = <<"resources", "resources", "resources", "data">>
    /\ ret = 4
    /\ HuntCalls = <<0, 1>>

\* ---- C4
\* C4: a listing that fails inside the search makes the call that issued it
\* return None at once (its frame is left, None is handed to its caller),
\* and no step of the search ends with a raised fault.
C4_FaultsBecomeNotFound ==
    [][ /\ phase' # "raised"
        /\ (Len(log') > Len(log) /\ ~log'[Len(log')].ok) =>
              /\ Len(stack') = Len(stack) - 1
              /\ ret' = None ]_vars

\* The search returned although a listing of find_target_sequence_globally
\* and a listing of _find_strict_sequence_from_path failed.
C4_Witness ==
    /\ Done
    /\ \E k \in 1..Len(log) : log[k].by = "hunt" /\ ~log[k].ok
    /\ \E k \in 1..Len(log) : log[k].by = "chain" /\ ~log[k].ok

\* ---- C5
\* C5: the search returns in every run, whatever listings fail, and every
\* recursive call of find_target_sequence_globally is made on an entry
\* listed directly inside the caller's search root.
C5_Termination ==
    /\ <>(phase = "returned")
    /\ [][ (Len(stack') > Len(stack) /\ stack'[Len(stack')].fn = "hunt") =>
              /\ stack'[Len(stack')].path \in Nodes
              /\ parent[stack'[Len(stack')].path] = Top.path ]_vars

\* The search returned after recursing three levels below the root.
C5_Witness ==
    /\ Done
    /\ \E k \in 1..Len(HuntCalls) : HuntCalls[k] # Root /\ Depth(HuntCalls[k]) = 3

\* ---- C6
\* The names of the directory entries directly inside path.
SubfolderNamesAt(path) ==
    { ename[i] : i \in { j \in Nodes : parent[j] = path /\ etype[j] = "dir" } }

\* The listing main made of the found path succeeded.
AggregateListed ==
    /\ log # <<>>
    /\ log[Len(log)].by = "main"
    /\ log[Len(log)].ok

\* C6: once a repository is processed the accumulated set is its value
\* before that repository united with the names of the directory entries
\* directly inside the returned path; it is that former value when the
\* search returned None or the listing of the found path failed, and while
\* the search runs; so it never loses a name.
C6_Aggregation ==
    /\ found_before \subseteq all_found_subfolder_names
    /\ phase # "processed" =>
          all_found_subfolder_names = found_before
    /\ phase = "processed" =>
          all_found_subfolder_names =
              found_before \cup
              (IF Truthy(ret) /\ AggregateListed THEN SubfolderNamesAt(ret) ELSE {})

\* The second repository is processed, names were collected before it, and
\* the found folder holds a file whose name is not in the set.
C6_Witness ==
    /\ phase = "processed"
    /\ repo_index = 2
    /\ found_before # {}
    /\ Truthy(ret)
    /\ AggregateListed
    /\ \E f \in Nodes :
        /\ parent[f] = ret
        /\ etype[f] = "file"
        /\ ename[f] \notin all_found_subfolder_names

\* ---- C7
\* P is the first-listed directory of its name in its directory.
IsFirstSuch(P) ==
    \A j \in Nodes :
        (parent[j] = parent[P] /\ etype[j] = "dir" /\ ename[j] = ename[P]) => j >= P

RECURSIVE Descends(_, _, _)
\* P is reached from base by descending through first-listed directories
\* named segs[1], ..., segs[Len(segs)], each directly inside the one before.
Descends(P, base, segs) ==
    IF segs = <<>> THEN P = base
    ELSE /\ P \in Nodes
         /\ etype[P] = "dir"
         /\ ename[P] = segs[Len(segs)]
         /\ IsFirstSuch(P)
         /\ Descends(parent[P], base, SubSeq(segs, 1, Len(segs) - 1))

\* The first k names of segs can be descended from base.
Reaches(base, segs, k) ==
    \E P \in Nodes \cup {base} : Descends(P, base, SubSeq(segs, 1, k))

\* How many leading names of segs can be descended from base.
ReachLen(base, segs) ==
    CHOOSE m \in 0..Len(segs) :
        /\ Reaches(base, segs, m)
        /\ \A k \in (m + 1)..Len(segs) : ~Reaches(base, segs, k)

\* Only listings of paths that do not exist failed.
NoListingFault == \A k \in 1..Len(log) : log[k].ok \/ ~Exists(log[k].path)

\* C7: without listing faults, _find_strict_sequence_from_path returns the
\* path reached by descending from base_path through directories named by
\* the segments, and None when a segment has no directory of its name (a
\* file of that name does not count); it lists exactly the paths of the
\* descent up to the first missing segment, and for no segments it returns
\* base_path without a listing.
C7_FollowChain ==
    (Done /\ NoListingFault) =>
        LET n == Len(segments_to_find)
            m == ReachLen(base_path, segments_to_find)
        IN  /\ m = n => /\ Descends(ret, base_path, segments_to_find)
                        /\ Len(log) = n
            /\ m < n => /\ ret = None
                        /\ Len(log) = m + 1
            /\ \A k \in 1..Len(log) :
                  Descends(log[k].path, base_path, SubSeq(segments_to_find, 1, k - 1))
            /\ n = 0 => (ret = base_path /\ log = <<>>)

\* The first segment was found, the second is the name of a file only: None
\* after two listings, the third segment never looked for.
C7_Witness ==
    /\ Done
    /\ AllListingsOk
    /\ Len(segments_to_find) = 3
    /\ ret = None
    /\ Len(log) = 2
    /\ \E f \in Nodes :
        /\ parent[f] = log[2].path
        /\ etype[f] = "file"
        /\ ename[f] = segments_to_find[2]

\* ---- C8
\* The directories named segments_to_find[1] directly inside the root.
RootCandidates ==
    { c \in Nodes : /\ parent[c] = Root
                    /\ etype[c] = "dir"
                    /\ segments_to_find # <<>>
                    /\ ename[c] = segments_to_find[1] }

\* The rest of segments_to_find can be descended from candidate c.
Completes(c) ==
    \E P \in Nodes : Descends(P, c, Tail(segments_to_find))

\* Two root directories carry the first name, c1 listed before c2; c1 is a
\* dead end and c2 is the first candidate that completes the chain.
DeadEndThenMatch(c1, c2) ==
    /\ c1 \in RootCandidates
    /\ c2 \in RootCandidates
    /\ c1 < c2
    /\ ~Completes(c1)
    /\ Completes(c2)
    /\ \A c \in RootCandidates : c < c2 => ~Completes(c)

\* C8: without listing faults, when the root listing holds two directories
\* named segments_to_find[1], the first a dead end and the second
\* completing the chain, the search returns the path through the second.
C8_LaterSiblingTried ==
    (Done /\ AllListingsOk /\ Len(segments_to_find) >= 2) =>
        \A c1 \in Nodes : \A c2 \in Nodes :
            DeadEndThenMatch(c1, c2) =>
                Descends(ret, c2, Tail(segments_to_find))

C8_Witness ==
    /\ Done
    /\ AllListingsOk
    /\ Len(segments_to_find) >= 2
    /\ \E c1 \in Nodes : \E c2 \in Nodes :
        /\ DeadEndThenMatch(c1, c2)
        /\ InSubtree(ret, c2)

\* ---- C9
\* The directories directly inside the root, in listing order.
RootDirs == SelectSeq(ChildIds(Root), LAMBDA i : etype[i] = "dir")

\* The root directories find_target_sequence_globally recursed into, in order.
RootDescents == SelectSeq(HuntCalls, LAMBDA q : q # Root /\ parent[q] = Root)

\* C9: without listing faults, when a root directory named
\* segments_to_find[1] completes the chain, the search returns the path
\* through the first such directory and makes no recursive call; otherwise
\* it recurses into the root directories in listing order, goes on to the
\* next one only after a None, and returns what the last one visited
\* returned.
C9_StageOrder ==
    /\ (Len(stack) = 1 /\ Top.fn = "hunt" /\ Top.pc = "stage2") => ~Truthy(ret)
    /\ (Done /\ AllListingsOk /\ segments_to_find # <<>>) =>
        IF \E c \in RootCandidates : Completes(c)
        THEN LET c0 == CHOOSE c \in RootCandidates :
                          /\ Completes(c)
                          /\ \A d \in RootCandidates : Completes(d) => c <= d
             IN  /\ Descends(ret, c0, Tail(segments_to_find))
                 /\ HuntCalls = <<Root>>
        ELSE /\ Len(RootDescents) <= Len(RootDirs)
             /\ RootDescents = SubSeq(RootDirs, 1, Len(RootDescents))
             /\ ret = None => Len(RootDescents) = Len(RootDirs)
             /\ ret # None =>
                   /\ RootDescents # <<>>
                   /\ InSubtree(ret, RootDescents[Len(RootDescents)])

\* A root directory matched in Stage 1 although a directory listed before
\* it holds a deeper complete match; no recursive call was made.
C9_Witness ==
    /\ Done
    /\ AllListingsOk
    /\ HuntCalls = <<Root>>
    /\ \E c \in RootCandidates :
        /\ InSubtree(ret, c)
        /\ \E d \in Nodes : \E Q \in Nodes :
            /\ parent[d] = Root
            /\ d < c
            /\ Q # d
            /\ InSubtree(Q, d)
            /\ MatchEndsAt(Q, segments_to_find)

\* ---- C10
\* segments_to_find occurs in the subtree of the root directory Y, and the
\* listing of the root and every listing inside the subtree of Y succeeded.
IntactBranch(Y) ==
    /\ Y \in Nodes
    /\ parent[Y] = Root
    /\ etype[Y] = "dir"
    /\ \E P \in Nodes : InSubtree(P, Y) /\ MatchEndsAt(P, segments_to_find)
    /\ \A k \in 1..Len(log) :
          (log[k].path = Root \/ InSubtree(log[k].path, Y)) => log[k].ok

====
